---- MODULE Spec2Model ----
(***************************************************************************)
(* Agentic Call Assistant: the POST /api/call route (validation, script    *)
(* synthesis, Twilio dispatch) and the HomePage activity log that submits  *)
(* requests and reconciles their outcomes.                                 *)
(*                                                                         *)
(* Text is a sequence of one-character strings, so trimming, length and    *)
(* the phone pattern are computed character by character. A piece of       *)
(* literal template text is kept as one multi-character element; none of   *)
(* the literals of the source contains & " ' < >.                          *)
(* A message is a tuple of text segments: a template literal `a${x}b` is   *)
(* <<"a", x, "b">>, a plain string literal "m" is <<"m">>.                 *)
(***************************************************************************)
EXTENDS Naturals, Sequences, FiniteSets, TLC

VARIABLES
    env,          \* process.env: the three TWILIO_* values
    requests,     \* the route's invocations of POST, in arrival order
    provider,     \* the invocations of client.calls.create, in order
    form,         \* HomePage state: form
    logs,         \* HomePage state: logs (newest first)
    isSubmitting, \* HomePage state: isSubmitting
    formErrors,   \* HomePage state: formErrors
    pending,      \* handleSubmit invocations suspended at their await
    nextId,       \* the identifiers crypto.randomUUID() has handed out
    now           \* the clock new Date() reads; it ticks between submissions

vars == <<env, requests, provider, form, logs, isSubmitting, formErrors,
          pending, nextId, now>>

serverVars == <<env, requests, provider>>
clientVars == <<form, logs, isSubmitting, formErrors, pending, nextId, now>>

-----------------------------------------------------------------------------
(* Bounds of the model. *)

\* locally valid submissions of the form (log entries created)
MaxSubmissions == 2
\* requests sent to the endpoint by other HTTP clients
MaxDirect == 2
\* length of the texts enumerated in full for escapeForXml
MaxTextLen == 3

-----------------------------------------------------------------------------
(* JavaScript values at the untyped boundary. *)

JUndef == [t |-> "undefined"]
JNum == [t |-> "number"]
JNull == [t |-> "null"]
JStr(s) == [t |-> "string", v |-> s]
JObj(f) == [t |-> "object", f |-> f]

IsStr(x) == x.t = "string"

\* JavaScript truthiness of a string-or-undefined value
Truthy(x) == IsStr(x) /\ Len(x.v) > 0

Fields == <<"callerName", "callerNumber", "recipientName", "recipientNumber",
            "objective", "notes">>

FieldSet == {Fields[i] : i \in 1..Len(Fields)}

-----------------------------------------------------------------------------
(* String.prototype.trim and the E.164 pattern. *)

Whitespace == {" ", "\t", "\n"}

Digits == {"0", "1", "2", "3", "4", "5", "6", "7", "8", "9"}

RECURSIVE TrimStart(_)
TrimStart(s) ==
    IF Len(s) > 0 /\ s[1] \in Whitespace THEN TrimStart(Tail(s)) ELSE s

RECURSIVE TrimEnd(_)
TrimEnd(s) ==
    IF Len(s) > 0 /\ s[Len(s)] \in Whitespace
    THEN TrimEnd(SubSeq(s, 1, Len(s) - 1))
    ELSE s

Trim(s) == TrimEnd(TrimStart(s))

\* MatchesE164 gone wrong: one digit more is let through, /^\+?[1-9]\d{6,15}$/
MatchesE164OneMore(s) ==
    LET rest == IF Len(s) > 0 /\ s[1] = "+" THEN Tail(s) ELSE s
    IN  /\ Len(rest) >= 1 + 6
        /\ Len(rest) <= 1 + 15
        /\ rest[1] \in Digits \ {"0"}
        /\ \A i \in 2..Len(rest) : rest[i] \in Digits

\* /^\+?[1-9]\d{6,14}$/
MatchesE164(s) ==
    LET rest == IF Len(s) > 0 /\ s[1] = "+" THEN Tail(s) ELSE s
    IN  /\ Len(rest) >= 1 + 6
        /\ Len(rest) <= 1 + 14
        /\ rest[1] \in Digits \ {"0"}
        /\ \A i \in 2..Len(rest) : rest[i] \in Digits

-----------------------------------------------------------------------------
(* The two zod schemas: the same rules, different messages. A rule is       *)
(* [optional, min, regex, message]; message <<>> stands for zod's default.  *)

Rule(optional, min, regex, message) ==
    [optional |-> optional, min |-> min, regex |-> regex, message |-> message]

requestSchema ==
    [callerName      |-> Rule(FALSE, 2, FALSE, <<>>),
     callerNumber    |-> Rule(TRUE, 0, FALSE, <<>>),
     recipientName   |-> Rule(FALSE, 2, FALSE, <<>>),
     recipientNumber |-> Rule(FALSE, 0, TRUE,
                              <<"Phone numbers must be in E.164 format.">>),
     objective       |-> Rule(FALSE, 5, FALSE, <<>>),
     notes           |-> Rule(TRUE, 0, FALSE, <<>>)]

callRequestSchema ==
    [callerName      |-> Rule(FALSE, 2, FALSE, <<"Caller name is required">>),
     callerNumber    |-> Rule(TRUE, 0, FALSE, <<>>),
     recipientName   |-> Rule(FALSE, 2, FALSE, <<"Recipient name is required">>),
     recipientNumber |-> Rule(FALSE, 0, TRUE,
                              <<"Enter an E.164 phone number, e.g. +15551234567">>),
     objective       |-> Rule(FALSE, 5, FALSE,
                              <<"Please describe what the agent should say">>),
     notes           |-> Rule(TRUE, 0, FALSE, <<>>)]

Issue(path, message) == [path |-> path, message |-> message]

\* zod's default messages
RequiredMsg == <<"Required">>
ExpectedStringMsg(x) == <<"Expected string, received ", x.t>>
ExpectedObjectMsg(x) == <<"Expected object, received ", x.t>>
TooSmallMsg(n) ==
    <<"String must contain at least ", ToString(n), " character(s)">>

\* z.string().trim()[.min(n)][.regex(re, msg)][.optional()] on one value:
\* the issues it raises, in the order of the checks
FieldIssues(rule, field, x) ==
    IF x.t = "undefined"
    THEN IF rule.optional THEN <<>> ELSE <<Issue(<<field>>, RequiredMsg)>>
    ELSE IF ~IsStr(x)
    THEN <<Issue(<<field>>, ExpectedStringMsg(x))>>
    ELSE LET s == Trim(x.v)
         IN  (IF Len(s) < rule.min
              THEN <<Issue(<<field>>,
                           IF rule.message = <<>> THEN TooSmallMsg(rule.min)
                                                  ELSE rule.message)>>
              ELSE <<>>)
             \o (IF rule.regex /\ ~MatchesE164(s)
                 THEN <<Issue(<<field>>, rule.message)>>
                 ELSE <<>>)

\* what the field parses to: the trimmed string, or undefined
FieldData(x) == IF IsStr(x) THEN JStr(Trim(x.v)) ELSE JUndef

\* ObjectIssues gone wrong: the fields are checked from the last to the first
RECURSIVE ObjectIssuesBackwards(_, _, _)
ObjectIssuesBackwards(schema, f, i) ==
    IF i > Len(Fields) THEN <<>>
    ELSE ObjectIssuesBackwards(schema, f, i + 1)
         \o FieldIssues(schema[Fields[i]], Fields[i], f[Fields[i]])

RECURSIVE ObjectIssues(_, _, _)
ObjectIssues(schema, f, i) ==
    IF i > Len(Fields) THEN <<>>
    ELSE FieldIssues(schema[Fields[i]], Fields[i], f[Fields[i]])
         \o ObjectIssues(schema, f, i + 1)

\* schema.safeParse(json): [success, issues, data]
SafeParse(schema, json) ==
    IF json.t # "object"
    THEN [success |-> FALSE,
          issues |-> <<Issue(<<>>, IF json.t = "undefined" THEN RequiredMsg
                                   ELSE ExpectedObjectMsg(json))>>,
          data |-> JUndef]
    ELSE LET issues == ObjectIssues(schema, json.f, 1)
         IN  [success |-> issues = <<>>,
              issues |-> issues,
              data |-> IF issues = <<>>
                       THEN [k \in FieldSet |-> FieldData(json.f[k])]
                       ELSE JUndef]

-----------------------------------------------------------------------------
(* buildCallScript and escapeForXml. *)

RECURSIVE Join(_, _)
Join(parts, sep) ==
    IF Len(parts) = 0 THEN <<>>
    ELSE IF Len(parts) = 1 THEN parts[1]
    ELSE parts[1] \o sep \o Join(Tail(parts), sep)

\* x ?? fallback
OrElse(x, fallback) == IF IsStr(x) THEN x.v ELSE fallback

\* buildCallScript gone wrong: .filter(Boolean) is left out, so the place of
\* absent notes is joined in as an empty piece
buildCallScriptNoFilter(payload) ==
    LET greeting == <<"Hello ">> \o payload.recipientName.v
                    \o <<", this is an automated call for you.">>
        introduction == OrElse(payload.callerName, <<"Agentic Assistant">>)
                        \o <<" asked me to share the following update.">>
        objective == payload.objective.v
        notes == IF Truthy(payload.notes)
                 THEN <<"Additional context from ">>
                      \o OrElse(payload.callerName, <<"the caller">>)
                      \o <<": ">> \o payload.notes.v
                 ELSE <<>>
        callback == IF Truthy(payload.callerNumber)
                    THEN <<"If you have questions, please call back at ">>
                         \o payload.callerNumber.v \o <<".">>
                    ELSE <<"If you have any questions, please reach out to them at your convenience.">>
    IN  greeting \o <<" ">> \o introduction \o <<" ">> \o objective \o <<" ">>
        \o notes \o <<" ">> \o callback \o <<" ">>
        \o <<"Thank you and goodbye!">>

buildCallScript(payload) ==
    LET greeting == <<"Hello ">> \o payload.recipientName.v
                    \o <<", this is an automated call for you.">>
        introduction == OrElse(payload.callerName, <<"Agentic Assistant">>)
                        \o <<" asked me to share the following update.">>
        objective == payload.objective.v
        notes == IF Truthy(payload.notes)
                 THEN << <<"Additional context from ">>
                         \o OrElse(payload.callerName, <<"the caller">>)
                         \o <<": ">> \o payload.notes.v >>
                 ELSE <<>>
        callback == IF Truthy(payload.callerNumber)
                    THEN <<"If you have questions, please call back at ">>
                         \o payload.callerNumber.v \o <<".">>
                    ELSE <<"If you have any questions, please reach out to them at your convenience.">>
        \* .filter(Boolean) drops undefined and the empty string
        kept == SelectSeq(<<greeting, introduction, objective>> \o notes
                          \o <<callback, <<"Thank you and goodbye!">> >>,
                          LAMBDA p : Len(p) > 0)
    IN  Join(kept, <<" ">>)

\* input.replace(/c/g, rep)
RECURSIVE ReplaceAll(_, _, _)
ReplaceAll(s, c, rep) ==
    IF Len(s) = 0 THEN <<>>
    ELSE (IF s[1] = c THEN rep ELSE <<s[1]>>) \o ReplaceAll(Tail(s), c, rep)

\* escapeForXml gone wrong: the ampersand is replaced last, after the others
escapeForXmlAmpLast(input) ==
    CHOOSE e \in
        { ReplaceAll(d, "&", <<"&", "a", "m", "p", ";">>) : d \in
        { ReplaceAll(c, ">", <<"&", "g", "t", ";">>) : c \in
        { ReplaceAll(b, "<", <<"&", "l", "t", ";">>) : b \in
        { ReplaceAll(a, "'", <<"&", "a", "p", "o", "s", ";">>) : a \in
        { ReplaceAll(i, "\"", <<"&", "q", "u", "o", "t", ";">>) : i \in {input}
        }}}}} : TRUE

\* the five replaces, each applied to the value of the one before (the
\* values are bound as set elements so that each is computed once)
escapeForXml(input) ==
    CHOOSE e \in
        { ReplaceAll(d, ">", <<"&", "g", "t", ";">>) : d \in
        { ReplaceAll(c, "<", <<"&", "l", "t", ";">>) : c \in
        { ReplaceAll(b, "'", <<"&", "a", "p", "o", "s", ";">>) : b \in
        { ReplaceAll(a, "\"", <<"&", "q", "u", "o", "t", ";">>) : a \in
        { ReplaceAll(i, "&", <<"&", "a", "m", "p", ";">>) : i \in {input}
        }}}}} : TRUE

Twiml(script) ==
    <<"<Response><Say voice=\"Polly.Joey\" language=\"en-US\">">>
    \o escapeForXml(script) \o <<"</Say></Response>">>

-----------------------------------------------------------------------------
(* The route: POST /api/call. *)

MissingConfigMsg ==
    <<"Missing Twilio configuration. Set TWILIO_ACCOUNT_SID, TWILIO_AUTH_TOKEN, and TWILIO_FROM_NUMBER.">>

GenericServerMsg ==
    <<"Unexpected server error while attempting to trigger the call.">>

InvalidPayloadMsg == <<"Invalid payload">>

QueuedMsg(sid) ==
    <<"Call queued with SID ", sid, ". Twilio will place the call shortly.">>

\* a thrown value: an Error with its message, or something that is no Error
Thrown(isError, message) == [isError |-> isError, message |-> message]

\* NextResponse.json(body, {status}); the status defaults to 200
Response(success, message, status) ==
    [success |-> success, message |-> message, status |-> status]

\* the process environments the route may run in
EnvConfigs ==
    LET sid == JStr(<<"AC0a1b">>)
        token == JStr(<<"s3cr3t">>)
        from == JStr(<<"+", "1", "5", "5", "5", "0", "1", "0", "0", "0", "0">>)
    IN  { [accountSid |-> sid, authToken |-> token, fromNumber |-> from],
          [accountSid |-> JUndef, authToken |-> token, fromNumber |-> from],
          [accountSid |-> sid, authToken |-> JStr(<<>>), fromNumber |-> from],
          [accountSid |-> sid, authToken |-> token, fromNumber |-> JUndef] }

\* ensureTwilioEnv gone wrong: the source number is not looked at
ensureTwilioEnvTwoOfThree(e) ==
    IF ~Truthy(e.accountSid) \/ ~Truthy(e.authToken)
    THEN [ok |-> FALSE, error |-> Thrown(TRUE, MissingConfigMsg)]
    ELSE [ok |-> TRUE, accountSid |-> e.accountSid.v,
          authToken |-> e.authToken.v, fromNumber |-> OrElse(e.fromNumber, <<>>)]

\* ensureTwilioEnv: the three values, or the Error it throws
ensureTwilioEnv(e) ==
    IF ~Truthy(e.accountSid) \/ ~Truthy(e.authToken) \/ ~Truthy(e.fromNumber)
    THEN [ok |-> FALSE, error |-> Thrown(TRUE, MissingConfigMsg)]
    ELSE [ok |-> TRUE, accountSid |-> e.accountSid.v,
          authToken |-> e.authToken.v, fromNumber |-> e.fromNumber.v]

\* what request.json() may throw on a body that is no JSON
BodyFaults == { Thrown(TRUE, <<"Unexpected token < in JSON at position 0">>) }

\* what import("twilio") may throw
ImportFaults == { Thrown(TRUE, <<"Cannot find module 'twilio'">>) }

\* how client.calls.create may settle
\* how the k-th invocation of client.calls.create may settle: the call
\* resource with its sid, or a rejection with an Error or with something else
ProviderOutcomes(k) ==
    { [accepted |-> TRUE, sid |-> "CA" \o ToString(k)],
      [accepted |-> FALSE, error |-> Thrown(TRUE, <<"Authenticate">>)],
      [accepted |-> FALSE, error |-> Thrown(FALSE, <<>>)] }

Unsettled == [accepted |-> FALSE, unsettled |-> TRUE]

\* the catch block of POST
CatchResponse(error) ==
    Response(FALSE,
             IF error.isError THEN error.message ELSE GenericServerMsg,
             500)

\* InvalidResponse gone wrong: the last issue is reported
InvalidResponseLastIssue(parsed) ==
    Response(FALSE,
             IF Len(parsed.issues) > 0
             THEN parsed.issues[Len(parsed.issues)].message
             ELSE InvalidPayloadMsg,
             400)

\* the response to a body that fails the schema
InvalidResponse(parsed) ==
    Response(FALSE,
             IF Len(parsed.issues) > 0 THEN parsed.issues[1].message
                                       ELSE InvalidPayloadMsg,
             400)

NoArgs == [to |-> <<>>, from |-> <<>>, twiml |-> <<>>]

\* a request as it arrives: origin is the log entry it was sent for, 0 for a
\* request of another HTTP client
NewRequest(origin, body) ==
    [origin |-> origin, body |-> body, stage |-> "received",
     fault |-> "none", args |-> NoArgs, responses |-> <<>>]

\* return NextResponse.json(...) on request r, stopped by `fault`
Respond(r, fault, response) ==
    requests' = [requests EXCEPT ![r].stage = "responded",
                                 ![r].fault = fault,
                                 ![r].responses = Append(@, response)]

\* Catch gone wrong: the error is thrown on and POST returns no response
CatchRethrows(r, fault, error) ==
    requests' = [requests EXCEPT ![r].stage = "threw", ![r].fault = fault]

\* the catch block: the error caught is answered with a 500
Catch(r, fault, error) == Respond(r, fault, CatchResponse(error))

\* PostReadBody gone wrong: a body that fails the schema is not turned away
PostReadBodyNoReturn(r) ==
    /\ r \in 1..Len(requests)
    /\ requests[r].stage = "received"
    /\ \E body \in {requests[r].body} :
       \E parsed \in {SafeParse(requestSchema, body)} :
       \E cfg \in {ensureTwilioEnv(env)} :
           IF body.t = "unreadable"
           THEN \E e \in BodyFaults : Catch(r, "body", e)
           ELSE IF ~cfg.ok
           THEN Catch(r, "config", cfg.error)
           ELSE requests' =
                    [requests EXCEPT
                        ![r].stage = "importing",
                        ![r].args =
                            IF parsed.success
                            THEN [to |-> parsed.data.recipientNumber.v,
                                  from |-> cfg.fromNumber,
                                  twiml |-> Twiml(buildCallScript(parsed.data))]
                            ELSE NoArgs]
    /\ UNCHANGED <<env, provider>>
    /\ UNCHANGED clientVars

\* POST up to its first suspension after the body is read: request.json(),
\* safeParse, ensureTwilioEnv, buildCallScript, then await import("twilio").
\* (json, parsed and the configuration are bound as the elements of
\* one-element sets: each is one value, computed once.)
PostReadBody(r) ==
    /\ r \in 1..Len(requests)
    /\ requests[r].stage = "received"
    /\ \E body \in {requests[r].body} :
       \E parsed \in {SafeParse(requestSchema, body)} :
       \E cfg \in {ensureTwilioEnv(env)} :
           IF body.t = "unreadable"
           THEN \E e \in BodyFaults : Catch(r, "body", e)
           ELSE IF ~parsed.success
           THEN Respond(r, "validation", InvalidResponse(parsed))
           ELSE IF ~cfg.ok
           THEN Catch(r, "config", cfg.error)
           ELSE requests' =
                    [requests EXCEPT
                        ![r].stage = "importing",
                        ![r].args = [to |-> parsed.data.recipientNumber.v,
                                     from |-> cfg.fromNumber,
                                     twiml |-> Twiml(buildCallScript(parsed.data))]]
    /\ UNCHANGED <<env, provider>>
    /\ UNCHANGED clientVars

\* import("twilio") settles; on success the client is built and
\* client.calls.create is invoked
PostImportTwilio(r) ==
    /\ r \in 1..Len(requests)
    /\ requests[r].stage = "importing"
    /\ \E loaded \in BOOLEAN :
          IF loaded
          THEN /\ requests' = [requests EXCEPT ![r].stage = "calling"]
               /\ provider' = Append(provider,
                                     [req |-> r, outcome |-> Unsettled]
                                     @@ requests[r].args)
          ELSE /\ \E e \in ImportFaults : Catch(r, "import", e)
               /\ UNCHANGED provider
    /\ UNCHANGED env
    /\ UNCHANGED clientVars

\* PostProviderSettles gone wrong: a rejected call is placed again
PostProviderSettlesRetry(r) ==
    /\ r \in 1..Len(requests)
    /\ requests[r].stage = "calling"
    /\ \E k \in 1..Len(provider) :
          /\ provider[k].req = r
          /\ provider[k].outcome = Unsettled
          /\ \E o \in ProviderOutcomes(k) :
                IF o.accepted
                THEN /\ provider' = [provider EXCEPT ![k].outcome = o]
                     /\ Respond(r, "none", Response(TRUE, QueuedMsg(o.sid), 200))
                ELSE /\ provider' = Append([provider EXCEPT ![k].outcome = o],
                                           [req |-> r, outcome |-> Unsettled]
                                           @@ requests[r].args)
                     /\ UNCHANGED requests
    /\ UNCHANGED env
    /\ UNCHANGED clientVars

\* client.calls.create settles
PostProviderSettles(r) ==
    /\ r \in 1..Len(requests)
    /\ requests[r].stage = "calling"
    /\ \E k \in 1..Len(provider) :
          /\ provider[k].req = r
          /\ provider[k].outcome = Unsettled
          /\ \E o \in ProviderOutcomes(k) :
                /\ provider' = [provider EXCEPT ![k].outcome = o]
                /\ IF o.accepted
                   THEN Respond(r, "none", Response(TRUE, QueuedMsg(o.sid), 200))
                   ELSE Catch(r, "provider", o.error)
    /\ UNCHANGED env
    /\ UNCHANGED clientVars

\* the number of times client.calls.create was invoked for request r
ProviderCalls(r) ==
    Cardinality({i \in 1..Len(provider) : provider[i].req = r})

-----------------------------------------------------------------------------
(* Requests of other HTTP clients: arbitrary bodies. *)

Text(s) == JStr(s)

ValidBody ==
    [callerName      |-> Text(<<"A", "l">>),
     callerNumber    |-> JUndef,
     recipientName   |-> Text(<<"J", "o">>),
     recipientNumber |-> Text(<<"5", "5", "5", "1", "2", "3", "4">>),
     objective       |-> Text(<<"H", "e", "l", "l", "o">>),
     notes           |-> JUndef]

Unreadable == [t |-> "unreadable"]

RawBodies ==
    { Unreadable,
      JNull,
      JObj(ValidBody),
      JObj([ValidBody EXCEPT
               !.callerName = Text(<<" ", "A", "l", " ">>),
               !.callerNumber = Text(<<"+", "1", "5", "5", "5", "0", "1", "9", "9">>),
               !.notes = Text(<<"a", "<", "b", "&", "c">>)]),
      JObj([ValidBody EXCEPT
               !.callerName = Text(<<"A">>),
               !.recipientName = JUndef,
               !.recipientNumber = Text(<<"0", "1", "2", "3", "4", "5", "6", "7">>),
               !.objective = Text(<<"H", "i", " ", " ", " ">>)]),
      JObj([ValidBody EXCEPT !.callerNumber = JNum]) }

DirectRequests ==
    Cardinality({r \in 1..Len(requests) : requests[r].origin = 0})

DirectPost(body) ==
    /\ DirectRequests < MaxDirect
    /\ requests' = Append(requests, NewRequest(0, body))
    /\ UNCHANGED <<env, provider>>
    /\ UNCHANGED clientVars

\* the bodies built from one set of values per field
BodiesOf(values) ==
    { JObj([callerName |-> a, callerNumber |-> b, recipientName |-> c,
            recipientNumber |-> d, objective |-> e, notes |-> g]) :
        a \in values.callerName, b \in values.callerNumber,
        c \in values.recipientName, d \in values.recipientNumber,
        e \in values.objective, g \in values.notes }

\* JSON bodies whose properties are absent, strings or values of other types
UntypedBodies ==
    BodiesOf([callerName      |-> {JUndef, Text(<<"A">>), Text(<<"A", "l">>)},
              callerNumber    |-> {JUndef, JNum, Text(<<"+", "1", "5", "5", "5">>)},
              recipientName   |-> {JNull, Text(<<"J", "o">>)},
              recipientNumber |-> {Text(<<"0", "1", "2", "3", "4", "5", "6">>),
                                   Text(<<"5", "5", "5", "1", "2", "3", "4">>)},
              objective       |-> {Text(<<"H", "i">>),
                                   Text(<<"H", "e", "l", "l", "o">>)},
              notes           |-> {JUndef, JNull, Text(<<"n">>)}])

\* phone numbers around the edges of the pattern
PhoneNumbers ==
    { <<"5", "5", "5", "1", "2", "3", "4">>,
      <<"5", "5", "5", "1", "2", "3">>,
      <<"+", "5", "5", "5", "1", "2", "3">>,
      <<"0", "1", "2", "3", "4", "5", "6", "7", "8", "9">>,
      <<"+", "1", "5", "5", "5">>,
      <<"a", "b", "c">>,
      <<>>,
      <<"+", "1", "5", "5", "5", "1", "2", "3", "4", "5", "6", "7">>,
      <<" ", "+", "1", "5", "5", "5", "1", "2", "3", "4", "5", "6", "7", "\n">>,
      <<"1", "2", "3", "4", "5", "6", "7", "8", "9", "0", "1", "2", "3", "4", "5">>,
      <<"1", "2", "3", "4", "5", "6", "7", "8", "9", "0", "1", "2", "3", "4", "5", "6">>,
      <<"+", "1", "2", "3", "4", "5", "6", "7", "8", "9", "0", "1", "2", "3", "4", "5", "6">>,
      <<"5", "5", "5", "-", "1", "2", "3", "4">>,
      <<"5", "5", "5", " ", "1", "2", "3", "4">>,
      <<"5", "5", "5", "1", "2", "3", "4", "+">>,
      <<"+", "+", "5", "5", "5", "1", "2", "3", "4">>,
      <<"+", "0", "5", "5", "5", "1", "2", "3", "4">> }

\* JSON bodies of text properties around the edges of every rule
TypedBodies ==
    BodiesOf([callerName      |-> {Text(<<>>), Text(<<"A">>), Text(<<"A", "l">>),
                                   Text(<<" ", "A", "\t">>)},
              callerNumber    |-> {JUndef, Text(<<"x">>)},
              recipientName   |-> {Text(<<" ", "J", " ">>), Text(<<"J", "o", " ">>)},
              recipientNumber |-> {Text(n) : n \in PhoneNumbers},
              objective       |-> {Text(<<"H", "i", "y", "a">>),
                                   Text(<<"H", "e", "l", "l", "o">>),
                                   Text(<<" ", "H", "i", "y", "a", " ">>)},
              notes           |-> {JUndef}])

\* valid JSON bodies with and without the optional properties, blank ones
\* and ones with the characters XML reserves included
ScriptBodies ==
    BodiesOf([callerName      |-> {Text(<<"A", "l">>)},
              callerNumber    |-> {JUndef, Text(<<>>), Text(<<" ">>),
                                   Text(<<" ", "+", "1", "5", "5", "5", " ">>)},
              recipientName   |-> {Text(<<"J", "o">>), Text(<<"O", "'", "N">>)},
              recipientNumber |-> {Text(<<"5", "5", "5", "1", "2", "3", "4">>)},
              objective       |-> {Text(<<"H", "e", "l", "l", "o">>),
                                   Text(<<"5", " ", ">", " ", "4", " ", "&",
                                          " ", "\"", "a", "\"">>)},
              notes           |-> {JUndef, Text(<<>>), Text(<<"\t", " ">>),
                                   Text(<<"a", "<", "b">>),
                                   Text(<<" ", "x", " ", " ", "y", " ">>)}])

\* every text of up to MaxTextLen characters over the five characters
\* escapeForXml replaces and the semicolon
ShortTexts ==
    UNION { [1..n -> {"&", "\"", "'", "<", ">", ";"}] : n \in 0..MaxTextLen }

\* texts that hold entities, or most of one, already
EntityTexts ==
    { <<"&", "l", "t", ";">>,
      <<"&", "g", "t", ";">>,
      <<"&", "a", "m", "p", ";">>,
      <<"&", "a", "m", "p", ";", "l", "t", ";">>,
      <<"&", "a", "m", "p", ";", "a", "m", "p", ";">>,
      <<"&", "q", "u", "o", "t", ";", "&", "a", "p", "o", "s", ";">>,
      <<"&", "l", "t">>,
      <<"a", "m", "p", ";">>,
      <<"<", "&", "l", "t", ";", ">">>,
      <<"&", "&", "a", "m", "p", ";", ";">>,
      <<"a", "<", "b", " ", "&", " ", "\"", "c", "\"", " ", ">", " ", "'", "d", "'">> }

\* valid JSON bodies whose notes run over these texts
EscapeBodies ==
    BodiesOf([callerName      |-> {Text(<<"A", "l">>)},
              callerNumber    |-> {JUndef},
              recipientName   |-> {Text(<<"J", "o">>)},
              recipientNumber |-> {Text(<<"5", "5", "5", "1", "2", "3", "4">>)},
              objective       |-> {Text(<<"H", "e", "l", "l", "o">>),
                                   Text(<<"&", "a", "m", "p", ";">>)},
              notes           |-> {Text(t) : t \in ShortTexts \cup EntityTexts}])

ProbeBodies == UntypedBodies \cup TypedBodies \cup ScriptBodies \cup EscapeBodies

\* one request at a time: a request arrives when none is being handled
ProbePost(body) ==
    /\ requests = <<>>
    /\ requests' = <<NewRequest(0, body)>>
    /\ UNCHANGED <<env, provider>>
    /\ UNCHANGED clientVars

\* the response has gone out: POST keeps nothing of a request it has answered
ProbeDone ==
    /\ requests # <<>>
    /\ \A r \in 1..Len(requests) : requests[r].stage = "responded"
    /\ requests' = <<>>
    /\ provider' = <<>>
    /\ UNCHANGED env
    /\ UNCHANGED clientVars

-----------------------------------------------------------------------------
(* The page: HomePage. *)

defaultForm ==
    [callerName      |-> <<"A", "g", "e", "n", "t", "i", "c", " ",
                           "A", "s", "s", "i", "s", "t", "a", "n", "t">>,
     callerNumber    |-> <<>>,
     recipientName   |-> <<>>,
     recipientNumber |-> <<>>,
     objective       |-> <<>>,
     notes           |-> <<>>]

\* what the user may type into each input
FormValues ==
    [callerName      |-> {defaultForm.callerName},
     callerNumber    |-> {<<>>},
     recipientName   |-> {<<>>, <<" ", "J", "o">>},
     recipientNumber |-> {<<>>, <<"5", "5", "5", "1", "2", "3", "4">>},
     objective       |-> {<<>>, <<"H", "e", "l", "l", "o">>},
     notes           |-> {<<>>}]

NoErrors == [k \in {} |-> <<>>]

SendingMsg == <<"Sending call request...">>

TransportMsg ==
    <<"Unexpected error communicating with the call service. Check server logs.">>

\* the form state as the object safeParse receives
FormJson(f) == JObj([k \in FieldSet |-> JStr(f[k])])

\* JSON.stringify(result.data) as request.json() reads it back: string
\* properties as they are, undefined properties absent
JsonBody(data) ==
    JObj([k \in FieldSet |-> IF IsStr(data[k]) THEN data[k] ELSE JUndef])

\* IssueErrors gone wrong: only the first issue of all is reported
IssueErrorsFirstOnly(issues) ==
    LET keyed == {i \in 1..Len(issues) : i = 1 /\ Len(issues[i].path) > 0}
    IN  [k \in {issues[i].path[1] : i \in keyed} |-> issues[1].message]

\* the errors record handleSubmit builds: per field, its first issue
IssueErrors(issues) ==
    LET keyed == {i \in 1..Len(issues) : Len(issues[i].path) > 0}
        keys == {issues[i].path[1] : i \in keyed}
        first(k) == CHOOSE i \in keyed :
                        /\ issues[i].path[1] = k
                        /\ \A j \in keyed : issues[j].path[1] = k => i <= j
    IN  [k \in keys |-> issues[first(k)].message]

\* onChange(field)(value): React raises the event when the value of the
\* input has changed
onChange(field, value) ==
    /\ value # form[field]
    /\ form' = [form EXCEPT ![field] = value]
    /\ formErrors' = IF field \in DOMAIN formErrors
                     THEN [k \in DOMAIN formErrors \ {field} |-> formErrors[k]]
                     ELSE formErrors
    /\ UNCHANGED <<logs, isSubmitting, pending, nextId, now>>
    /\ UNCHANGED serverVars

\* resetForm()
resetForm ==
    /\ form' = defaultForm
    /\ formErrors' = NoErrors

\* the Reset button, disabled while isSubmitting
ResetClick ==
    /\ ~isSubmitting
    /\ resetForm
    /\ UNCHANGED <<logs, isSubmitting, pending, nextId, now>>
    /\ UNCHANGED serverVars

\* the entry handleSubmit creates from result.data
OptimisticLog(id, createdAt, data) ==
    [id |-> id, createdAt |-> createdAt, status |-> "queued",
     recipientName |-> data.recipientName.v,
     recipientNumber |-> data.recipientNumber.v,
     objective |-> data.objective.v,
     notes |-> data.notes,
     responseMessage |-> SendingMsg]

\* UpdateLog gone wrong: the entry is rebuilt from the form as it is now
UpdateLogFromForm(prev, id, status, message) ==
    [i \in 1..Len(prev) |->
        IF prev[i].id = id
        THEN [prev[i] EXCEPT !.status = status, !.responseMessage = message,
                             !.recipientName = Trim(form.recipientName),
                             !.recipientNumber = Trim(form.recipientNumber),
                             !.objective = Trim(form.objective),
                             !.notes = JStr(Trim(form.notes))]
        ELSE prev[i]]

\* UpdateLog gone wrong: the entry updated moves to the head of the log
UpdateLogMoveToHead(prev, id, status, message) ==
    [i \in 1..Len(SelectSeq(prev, LAMBDA e : e.id = id)) |->
        [SelectSeq(prev, LAMBDA e : e.id = id)[i] EXCEPT
            !.status = status, !.responseMessage = message]]
    \o SelectSeq(prev, LAMBDA e : e.id # id)

\* UpdateLog gone wrong: the newest entry is updated, whatever its id
UpdateLogByRecency(prev, id, status, message) ==
    [i \in 1..Len(prev) |->
        IF i = 1
        THEN [prev[i] EXCEPT !.status = status, !.responseMessage = message]
        ELSE prev[i]]

\* UpdateLog gone wrong: every entry still in the log gets the new status
UpdateLogAll(prev, id, status, message) ==
    [i \in 1..Len(prev) |->
        IF prev[i].id = id
        THEN [prev[i] EXCEPT !.status = status, !.responseMessage = message]
        ELSE [prev[i] EXCEPT !.status = status]]

\* prev.map(log => log.id === id ? {...log, status, responseMessage} : log)
UpdateLog(prev, id, status, message) ==
    [i \in 1..Len(prev) |->
        IF prev[i].id = id
        THEN [prev[i] EXCEPT !.status = status, !.responseMessage = message]
        ELSE prev[i]]

\* handleSubmit up to its await: the form's submit event. The handler itself
\* does not look at isSubmitting (only the buttons are disabled by it), so a
\* submit event dispatched while a request is in flight starts another one.
handleSubmit ==
    LET result == SafeParse(callRequestSchema, FormJson(form))
    IN  IF ~result.success
        THEN /\ formErrors' = IssueErrors(result.issues)
             /\ UNCHANGED <<form, logs, isSubmitting, pending, nextId, now>>
             /\ UNCHANGED serverVars
        ELSE /\ nextId < MaxSubmissions
             /\ isSubmitting' = TRUE
             /\ nextId' = nextId + 1
             /\ now' = now + 1
             /\ logs' = <<OptimisticLog(nextId', now', result.data)>> \o logs
             /\ requests' = Append(requests,
                                   NewRequest(nextId', JsonBody(result.data)))
             /\ pending' = pending \cup {[id |-> nextId', req |-> Len(requests')]}
             /\ UNCHANGED <<form, formErrors, env, provider>>

\* Resolve gone wrong: a response that arrived counts as success
ResolveAnyResponse(p) ==
    /\ p \in pending
    /\ requests[p.req].stage = "responded"
    /\ LET payload == requests[p.req].responses[1]
       IN  /\ logs' = UpdateLog(logs, p.id, "success", payload.message)
           /\ resetForm
    /\ isSubmitting' = FALSE
    /\ pending' = pending \ {p}
    /\ UNCHANGED <<nextId, now>>
    /\ UNCHANGED serverVars

\* Resolve gone wrong: the form is reset whatever the payload says
ResolveAlwaysReset(p) ==
    /\ p \in pending
    /\ requests[p.req].stage = "responded"
    /\ LET payload == requests[p.req].responses[1]
       IN  /\ logs' = UpdateLog(logs, p.id,
                                IF payload.success THEN "success" ELSE "error",
                                payload.message)
           /\ resetForm
    /\ isSubmitting' = FALSE
    /\ pending' = pending \ {p}
    /\ UNCHANGED <<nextId, now>>
    /\ UNCHANGED serverVars

\* handleSubmit after fetch and response.json() have resolved
Resolve(p) ==
    /\ p \in pending
    /\ requests[p.req].stage = "responded"
    /\ LET payload == requests[p.req].responses[1]
       IN  /\ logs' = UpdateLog(logs, p.id,
                                IF payload.success THEN "success" ELSE "error",
                                payload.message)
           /\ IF payload.success THEN resetForm
                                 ELSE UNCHANGED <<form, formErrors>>
    /\ isSubmitting' = FALSE
    /\ pending' = pending \ {p}
    /\ UNCHANGED <<nextId, now>>
    /\ UNCHANGED serverVars

\* TransportFailure gone wrong: the entry shows the text of the error caught
TransportFailureRawText(p) ==
    /\ p \in pending
    /\ logs' = UpdateLog(logs, p.id, "error", <<"Failed to fetch">>)
    /\ isSubmitting' = FALSE
    /\ pending' = pending \ {p}
    /\ UNCHANGED <<form, formErrors, nextId, now>>
    /\ UNCHANGED serverVars

\* TransportFailure gone wrong: the catch block leaves the log as it is
TransportFailureSilent(p) ==
    /\ p \in pending
    /\ isSubmitting' = FALSE
    /\ pending' = pending \ {p}
    /\ UNCHANGED <<form, formErrors, logs, nextId, now>>
    /\ UNCHANGED serverVars

\* handleSubmit after fetch or response.json() has rejected: the catch block
TransportFailure(p) ==
    /\ p \in pending
    /\ logs' = UpdateLog(logs, p.id, "error", TransportMsg)
    /\ isSubmitting' = FALSE
    /\ pending' = pending \ {p}
    /\ UNCHANGED <<form, formErrors, nextId, now>>
    /\ UNCHANGED serverVars

-----------------------------------------------------------------------------
(* Specifications. *)

Init ==
    /\ env \in EnvConfigs
    /\ requests = <<>>
    /\ provider = <<>>
    /\ form = defaultForm
    /\ logs = <<>>
    /\ isSubmitting = FALSE
    /\ formErrors = NoErrors
    /\ pending = {}
    /\ nextId = 0
    /\ now = 0

Server ==
    \E r \in 1..Len(requests) :
        \/ PostReadBody(r)
        \/ PostImportTwilio(r)
        \/ PostProviderSettles(r)

\* the page and the route end to end
Next ==
    \/ \E field \in FieldSet : \E value \in FormValues[field] :
          onChange(field, value)
    \/ ResetClick
    \/ handleSubmit
    \/ \E p \in pending : Resolve(p)
    \/ \E p \in pending : TransportFailure(p)
    \/ Server

Spec == Init /\ [][Next]_vars

\* the route alone, under requests with arbitrary bodies
NextApi ==
    \/ \E body \in RawBodies : DirectPost(body)
    \/ Server

SpecApi == Init /\ [][NextApi]_vars

\* the route runs every request it received to its next suspension, and the
\* module loader and the provider settle every promise they returned
FairSpecApi == SpecApi /\ WF_vars(Server)

\* the page and the route, where every round trip comes to an end: the
\* promise a handleSubmit invocation awaits resolves or rejects
FairSpec ==
    Spec /\ WF_vars(\E p \in pending : Resolve(p) \/ TransportFailure(p))

\* the route alone, one request at a time, over a wide range of bodies
NextProbe ==
    \/ \E body \in ProbeBodies : ProbePost(body)
    \/ Server
    \/ ProbeDone

SpecProbe == Init /\ [][NextProbe]_vars

-----------------------------------------------------------------------------
(* The activity log under concurrent submissions (Spec). *)

Entry(log, id) == log[CHOOSE i \in 1..Len(log) : log[i].id = id]

HasEntry(log, id) == \E i \in 1..Len(log) : log[i].id = id

\* a handleSubmit invocation whose round trip resolves in this step
Resolves(p) == p \in pending /\ p \notin pending'

\* C1: whatever the order in which the round trips of concurrent submissions
\* resolve, a resolution changes the status and the responseMessage of the
\* entry whose id that submission generated, and of no other entry.
C1_ResolutionTouchesOwnEntryOnly ==
    [][\A p \in pending :
          Resolves(p) =>
             /\ Len(logs') = Len(logs)
             /\ \E i \in 1..Len(logs) : logs[i].id = p.id
             /\ \A i \in 1..Len(logs) :
                   /\ logs'[i].id = logs[i].id
                   /\ IF logs[i].id = p.id
                      THEN /\ logs[i].status = "queued"
                           /\ logs'[i].status \in {"success", "error"}
                           /\ logs'[i].responseMessage # logs[i].responseMessage
                      ELSE /\ logs'[i].status = logs[i].status
                           /\ logs'[i].responseMessage = logs[i].responseMessage
      ]_vars

\* two submissions were in flight at once and the later one resolved first
C1_Witness ==
    /\ Len(logs) = 2
    /\ logs[1].id = 2 /\ logs[1].status = "success"
    /\ logs[2].id = 1 /\ logs[2].status = "queued"
    /\ \E p \in pending : p.id = 1

\* C8: an entry is created queued; its status changes at most once, from
\* queued to success or error, and a success or error entry keeps its status
\* through every later submission, resolution, edit and reset.
C8_StatusChangesOnce ==
    [][/\ \A j \in 1..Len(logs') :
             ~HasEntry(logs, logs'[j].id) => logs'[j].status = "queued"
       /\ \A i \in 1..Len(logs) :
             /\ HasEntry(logs', logs[i].id)
             /\ LET after == Entry(logs', logs[i].id).status
                IN  \/ after = logs[i].status
                    \/ /\ logs[i].status = "queued"
                       /\ after \in {"success", "error"}
      ]_vars

\* an entry reached success, and a later submission has been made and has
\* resolved with an error since
C8_Witness ==
    /\ Len(logs) = 2
    /\ logs[2].status = "success"
    /\ logs[1].status = "error"
    /\ form # defaultForm

\* the fields of form f the local schema rejects
FailingFields(f) ==
    {k \in FieldSet : FieldIssues(callRequestSchema[k], k, JStr(f[k])) # <<>>}

\* C9: a submission of form values that fail local validation creates no log
\* entry and sends no request, and sets for each failing field the message
\* of that field's first issue; the log is as before.
C9_InvalidSubmissionOnlySetsErrors ==
    [][(handleSubmit /\ FailingFields(form) # {}) =>
          /\ logs' = logs
          /\ requests' = requests
          /\ pending' = pending
          /\ nextId' = nextId
          /\ form' = form
          /\ DOMAIN formErrors' = FailingFields(form)
          /\ \A k \in FailingFields(form) :
                formErrors'[k] =
                   FieldIssues(callRequestSchema[k], k, JStr(form[k]))[1].message
      ]_vars

\* an invalid submission with three failing fields has been made, and there
\* is neither a log entry nor a request
C9_Witness ==
    /\ DOMAIN formErrors = {"recipientName", "recipientNumber", "objective"}
    /\ logs = <<>>
    /\ requests = <<>>

\* C10: a resolution with a failure (a response with success false, or a
\* transport failure) leaves the form values as they were; a resolution with
\* success resets the form to its defaults and clears the field errors.
C10_FormKeptOnFailureResetOnSuccess ==
    [][\A p \in pending :
          Resolves(p) =>
             IF Entry(logs', p.id).status = "success"
             THEN form' = defaultForm /\ formErrors' = NoErrors
             ELSE form' = form /\ formErrors' = formErrors
      ]_vars

\* a first submission succeeded (the form was reset), the form was filled in
\* again, and the second submission failed, leaving the form filled in
C10_Witness ==
    /\ Len(logs) = 2
    /\ logs[2].status = "success"
    /\ logs[1].status = "error"
    /\ pending = {}
    /\ SafeParse(callRequestSchema, FormJson(form)).success

-----------------------------------------------------------------------------
(* The life of a log entry (Spec, FairSpec). *)

Terminal == {"success", "error"}

\* the handleSubmit invocation of entry id is suspended at its await
InFlight(id) == \E p \in pending : p.id = id

\* C11: an entry is queued exactly as long as its own round trip has not
\* resolved: the step that resolves the round trip, with a response or with
\* a transport failure, leaves the entry in success or error, so no entry is
\* queued after its round trip resolved; and where every round trip
\* resolves, every entry created ends in success or error.
C11_EntryTerminalOnceResolved ==
    /\ [](\A i \in 1..Len(logs) :
             /\ logs[i].status \in Terminal \cup {"queued"}
             /\ logs[i].status = "queued" <=> InFlight(logs[i].id))
    /\ [][\A p \in pending :
             Resolves(p) =>
                /\ HasEntry(logs', p.id)
                /\ Entry(logs', p.id).status \in Terminal]_vars
    /\ \A id \in 1..MaxSubmissions :
          HasEntry(logs, id) ~>
             (HasEntry(logs, id) /\ Entry(logs, id).status \in Terminal)

\* one round trip ended with a response and one with a transport failure,
\* and neither entry is queued
C11_Witness ==
    /\ Len(logs) = 2
    /\ pending = {}
    /\ \E i, j \in 1..2 :
          /\ logs[i].responseMessage = TransportMsg
          /\ logs[j].responseMessage \notin {TransportMsg, SendingMsg}
    /\ \A i \in 1..2 : logs[i].status \in Terminal

\* the round trip of p ends without a usable response: the catch block runs,
\* or the invocation ends while the route has not answered
TransportFails(p) ==
    \/ TransportFailure(p)
    \/ Resolves(p) /\ requests[p.req].stage # "responded"

\* C12: when the round trip of a submission ends in a transport failure, the
\* submission's own entry goes from queued to error with the fixed
\* connectivity message, every other entry stays as it is, and no entry
\* goes to success.
C12_TransportFailureIsGenericError ==
    [][\A p \in pending :
          TransportFails(p) =>
             /\ Len(logs') = Len(logs)
             /\ \E i \in 1..Len(logs) : logs[i].id = p.id
             /\ \A i \in 1..Len(logs) :
                   IF logs[i].id = p.id
                   THEN /\ logs[i].status = "queued"
                        /\ logs'[i] = [logs[i] EXCEPT
                                          !.status = "error",
                                          !.responseMessage = TransportMsg]
                   ELSE logs'[i] = logs[i]
             /\ \A i \in 1..Len(logs) :
                   logs'[i].status = "success" => logs[i].status = "success"
      ]_vars

\* the first submission ended in a transport failure before the route had
\* read its request, while the second is still in flight
C12_Witness ==
    /\ Len(logs) = 2
    /\ logs[2].status = "error"
    /\ logs[2].responseMessage = TransportMsg
    /\ logs[1].status = "queued"
    /\ \E r \in 1..Len(requests) :
          requests[r].origin = logs[2].id /\ requests[r].stage = "received"

\* what an entry holds apart from status and responseMessage
Snapshot(e) ==
    [id |-> e.id, createdAt |-> e.createdAt,
     recipientName |-> e.recipientName, recipientNumber |-> e.recipientNumber,
     objective |-> e.objective, notes |-> e.notes]

\* C13: an entry is created with the trimmed values the form holds at the
\* submission, and from then on its id, createdAt, recipientName,
\* recipientNumber, objective and notes stay as they are through every
\* resolution, edit and reset of the form: a step changes at most status and
\* responseMessage of an entry.
C13_SnapshotNeverChanges ==
    [][/\ \A j \in 1..Len(logs') :
             ~HasEntry(logs, logs'[j].id) =>
                /\ logs'[j].recipientName = Trim(form.recipientName)
                /\ logs'[j].recipientNumber = Trim(form.recipientNumber)
                /\ logs'[j].objective = Trim(form.objective)
                /\ logs'[j].notes = JStr(Trim(form.notes))
                /\ logs'[j].createdAt = now'
       /\ \A i \in 1..Len(logs) :
             /\ HasEntry(logs', logs[i].id)
             /\ Snapshot(Entry(logs', logs[i].id)) = Snapshot(logs[i])
      ]_vars

\* the form was edited after the submission and the round trip has resolved:
\* the entry holds the objective submitted, the form another one
C13_Witness ==
    /\ Len(logs) = 1
    /\ logs[1].status = "error"
    /\ logs[1].objective = <<"H", "e", "l", "l", "o">>
    /\ form.objective = <<>>
    /\ form.recipientName # Trim(form.recipientName)
    /\ form.recipientName # logs[1].recipientName

\* the ids of the log, in its order
Ids(log) == [i \in 1..Len(log) |-> log[i].id]

\* C14: the log lists the entries newest first by submission order (the
\* k-th valid submission has id k in the model): a valid submission puts
\* its entry at the head of the log as it was, and every other step, the
\* resolutions in whatever order included, keeps the entries and their
\* order; so the length of the log never decreases.
C14_NewestFirst ==
    /\ [](\A i, j \in 1..Len(logs) :
             i < j => /\ logs[i].id > logs[j].id
                      /\ logs[i].createdAt >= logs[j].createdAt)
    /\ [][/\ Len(logs') >= Len(logs)
          /\ IF nextId' # nextId
             THEN /\ Ids(logs') = <<nextId'>> \o Ids(logs)
                  /\ Tail(logs') = logs
             ELSE Ids(logs') = Ids(logs)
         ]_vars

\* the second submission was made while the first was in flight, and the
\* first resolved after that: the newer entry is still at the head
C14_Witness ==
    /\ Len(logs) = 2
    /\ Ids(logs) = <<2, 1>>
    /\ logs[1].status = "queued"
    /\ logs[2].status # "queued"
    /\ \E r \in 1..Len(requests) :
          requests[r].origin = 1 /\ requests[r].stage = "responded"

-----------------------------------------------------------------------------
(* The route under arbitrary requests (SpecApi, FairSpecApi). *)

Readable(r) == requests[r].body.t # "unreadable"

Parsed(r) == SafeParse(requestSchema, requests[r].body)

Responded(r) == requests[r].stage = "responded"

\* one of the three configuration values is absent or empty
MissingConfig ==
    \E k \in {"accountSid", "authToken", "fromNumber"} :
        env[k] = JUndef \/ env[k] = JStr(<<>>)

\* C2: for a request whose body fails the server's schema, client.calls.create
\* is never invoked.
C2_InvalidBodyNeverDispatched ==
    \A r \in 1..Len(requests) :
        (Readable(r) /\ ~Parsed(r).success) => ProviderCalls(r) = 0

\* a body that fails the schema has been answered, next to a request for
\* which the provider was invoked
C2_Witness ==
    \E r, q \in 1..Len(requests) :
        /\ Readable(r) /\ ~Parsed(r).success /\ Responded(r)
        /\ ProviderCalls(q) = 1

\* C3: client.calls.create is invoked at most once per request, however the
\* invocation ends: a rejected invocation is not followed by another one for
\* the same request.
C3_AtMostOneProviderCall ==
    \A r \in 1..Len(requests) :
        /\ ProviderCalls(r) <= 1
        /\ \A k \in 1..Len(provider) :
              (provider[k].req = r /\ provider[k].outcome # Unsettled
                  /\ ~provider[k].outcome.accepted)
              => \A j \in 1..Len(provider) : provider[j].req = r => j = k

\* the provider rejected the call of a request, and the request was answered
C3_Witness ==
    \E r \in 1..Len(requests) :
        /\ Responded(r)
        /\ \E k \in 1..Len(provider) :
              /\ provider[k].req = r
              /\ provider[k].outcome # Unsettled
              /\ ~provider[k].outcome.accepted

\* C4: with a configuration value absent, a request that passes validation
\* is answered with the configuration message and status 500 without the
\* twilio module being loaded or the provider invoked; and a failure on the
\* configuration is not a provider rejection: the provider was never invoked
\* for it, while for a provider rejection it was.
C4_MissingConfigFailsFast ==
    \A r \in 1..Len(requests) :
        /\ (MissingConfig /\ Readable(r) /\ Parsed(r).success) =>
              /\ requests[r].stage \in {"received", "responded"}
              /\ ProviderCalls(r) = 0
              /\ Responded(r) =>
                    /\ requests[r].responses =
                          <<Response(FALSE, MissingConfigMsg, 500)>>
                    /\ requests[r].fault = "config"
        /\ requests[r].fault = "config" => MissingConfig /\ ProviderCalls(r) = 0
        /\ requests[r].fault = "provider" => ProviderCalls(r) = 1

\* a valid request was answered while the source number was not configured
C4_Witness ==
    /\ env.fromNumber = JUndef
    /\ \E r \in 1..Len(requests) :
          Readable(r) /\ Parsed(r).success /\ Responded(r)

\* C5: every request POST receives is answered, exactly once, on every path:
\* never two responses, one response once responded, a responded request
\* stays as it is, and every received request is eventually responded.
C5_ExactlyOneResponse ==
    /\ [](\A r \in 1..Len(requests) :
             /\ Len(requests[r].responses) <= 1
             /\ Responded(r) <=> Len(requests[r].responses) = 1)
    /\ [][\A r \in 1..Len(requests) :
             Responded(r) => requests'[r] = requests[r]]_vars
    /\ \A r \in 1..MaxDirect :
          (r <= Len(requests)) ~> (r <= Len(requests) /\ Responded(r))

\* a request with an unreadable body and a request the provider accepted
\* have both been answered
C5_Witness ==
    \E r, q \in 1..Len(requests) :
        /\ Responded(r) /\ requests[r].fault = "body"
        /\ Responded(q) /\ requests[q].fault = "none"

\* C6: the response follows the stage the request stopped at. A body that
\* fails the schema: success false, the first issue's message, status 400.
\* A missing configuration or a provider rejection: success false, the
\* configuration or the provider's message, status 500. Success true, with a
\* 2xx status, only if the provider accepted the call, and then the message
\* holds the sid the provider returned.
C6_ResponseFollowsStage ==
    \A r \in 1..Len(requests) :
        Responded(r) =>
           LET resp == requests[r].responses[1]
               rejected == {k \in 1..Len(provider) :
                               /\ provider[k].req = r
                               /\ provider[k].outcome # Unsettled
                               /\ ~provider[k].outcome.accepted}
           IN  /\ (Readable(r) /\ ~Parsed(r).success) =>
                     resp = Response(FALSE, Parsed(r).issues[1].message, 400)
               /\ (Readable(r) /\ Parsed(r).success /\ MissingConfig) =>
                     resp = Response(FALSE, MissingConfigMsg, 500)
               /\ \A k \in rejected :
                     resp = Response(FALSE,
                                     IF provider[k].outcome.error.isError
                                     THEN provider[k].outcome.error.message
                                     ELSE GenericServerMsg,
                                     500)
               /\ resp.success <=> resp.status \in 200..299
               /\ resp.success =>
                     \E k \in 1..Len(provider) :
                        /\ provider[k].req = r
                        /\ provider[k].outcome # Unsettled
                        /\ provider[k].outcome.accepted
                        /\ \E i \in 1..Len(resp.message) :
                              resp.message[i] = provider[k].outcome.sid

\* a body with two violated fields and a request the provider accepted have
\* both been answered
C6_Witness ==
    \E r, q \in 1..Len(requests) :
        /\ Responded(r) /\ Readable(r) /\ Len(Parsed(r).issues) >= 2
        /\ Responded(q) /\ requests[q].responses[1].success

\* C7: a fault that is neither a validation failure nor a configuration error
\* nor a provider rejection (the body cannot be read, the twilio module cannot
\* be loaded) is answered with the generic server-error message, not with the
\* text of the error.
C7_UncategorizedFaultIsGeneric ==
    \A r \in 1..Len(requests) :
        (Responded(r) /\ requests[r].fault \in {"body", "import"}) =>
           requests[r].responses[1].message = GenericServerMsg

-----------------------------------------------------------------------------
(* The validator at the untyped boundary (SpecProbe). *)

\* the fields the rules constrain, in the order the failure is reported
ConstrainedFields ==
    <<"callerName", "recipientName", "recipientNumber", "objective">>

\* the issues the schema raises on field k of the object f
IssuesOf(f, k) == FieldIssues(requestSchema[k], k, f[k])

\* the constrained fields of f that are violated, as positions
Violated(f) ==
    {i \in 1..Len(ConstrainedFields) : IssuesOf(f, ConstrainedFields[i]) # <<>>}

\* the first violated field of f in the order of ConstrainedFields
FirstViolated(f) ==
    ConstrainedFields[CHOOSE i \in Violated(f) : \A j \in Violated(f) : i <= j]

\* a property that is absent or a string
TextOrAbsent(x) == x.t \in {"undefined", "string"}

\* C15 as claimed: the failure the server reports for a body is that of the
\* first violated field in the order callerName, recipientName,
\* recipientNumber, objective, and a body is never turned away because of
\* callerNumber or notes, whatever their values.
C15_FirstViolatedFieldAnyInput ==
    \A r \in 1..Len(requests) :
        (Responded(r) /\ requests[r].body.t = "object") =>
           LET f == requests[r].body.f
           IN  IF Violated(f) # {}
               THEN requests[r].responses[1] =
                       Response(FALSE, IssuesOf(f, FirstViolated(f))[1].message, 400)
               ELSE requests[r].fault # "validation"

\* C15 amended: the same, for bodies whose callerNumber and notes are each
\* absent or a string; a callerNumber or notes of another type is itself a
\* validation failure.
C15_FirstViolatedFieldTextInput ==
    \A r \in 1..Len(requests) :
        (Responded(r) /\ requests[r].body.t = "object") =>
           LET f == requests[r].body.f
           IN  IF TextOrAbsent(f.callerNumber) /\ TextOrAbsent(f.notes)
               THEN IF Violated(f) # {}
                    THEN requests[r].responses[1] =
                            Response(FALSE,
                                     IssuesOf(f, FirstViolated(f))[1].message,
                                     400)
                    ELSE requests[r].fault # "validation"
               ELSE requests[r].fault = "validation"

\* a body with callerName, recipientNumber and objective violated, and with
\* callerNumber and notes given as strings, has been answered
C15_Witness ==
    \E r \in 1..Len(requests) :
        /\ Responded(r)
        /\ requests[r].body.t = "object"
        /\ Violated(requests[r].body.f) = {1, 3, 4}
        /\ IsStr(requests[r].body.f.callerNumber)
        /\ IsStr(requests[r].body.f.notes)

-----------------------------------------------------------------------------
(* The verdict of the validator (SpecProbe). *)

\* a body all of whose properties are text, the optional ones possibly absent
IsCallRequest(body) ==
    /\ body.t = "object"
    /\ \A i \in 1..Len(ConstrainedFields) : IsStr(body.f[ConstrainedFields[i]])
    /\ TextOrAbsent(body.f.callerNumber)
    /\ TextOrAbsent(body.f.notes)

\* an optional plus, then 7 to 15 digits of which the first is 1 to 9
IsPhoneNumber(s) ==
    \E plus \in {0, 1} :
        /\ plus = 1 => (Len(s) > 0 /\ s[1] = "+")
        /\ Len(s) - plus \in 7..15
        /\ s[plus + 1] \in {"1", "2", "3", "4", "5", "6", "7", "8", "9"}
        /\ \A i \in (plus + 1)..Len(s) : s[i] \in Digits

\* the rules on the trimmed values of the four constrained fields
MeetsRules(f) ==
    /\ Len(Trim(f.callerName.v)) >= 2
    /\ Len(Trim(f.recipientName.v)) >= 2
    /\ Len(Trim(f.objective.v)) >= 5
    /\ IsPhoneNumber(Trim(f.recipientNumber.v))

\* C16: a CallRequest passes validation if and only if, after trimming,
\* callerName and recipientName have length >= 2, objective has length >= 5
\* and recipientNumber is an optional plus and 7 to 15 digits not starting
\* with 0; a request that does not is turned away as a whole with status
\* 400, nothing of it reaching the provider, and a request that does goes on
\* with every field trimmed.
C16_AcceptedIffAllRulesMet ==
    \A r \in 1..Len(requests) :
        IsCallRequest(requests[r].body) =>
           LET f == requests[r].body.f
           IN  /\ Parsed(r).success <=> MeetsRules(f)
               /\ requests[r].stage # "received" =>
                     IF MeetsRules(f)
                     THEN /\ requests[r].fault # "validation"
                          /\ requests[r].args # NoArgs =>
                                requests[r].args.to = Trim(f.recipientNumber.v)
                     ELSE /\ requests[r].stage = "responded"
                          /\ requests[r].fault = "validation"
                          /\ requests[r].responses[1].status = 400
                          /\ requests[r].args = NoArgs
                          /\ ProviderCalls(r) = 0

\* a request on the accepting edge of every rule (names of length 2, an
\* objective of length 5, 7 digits without a plus) has been accepted and
\* handed to the provider
C16_Witness ==
    \E r \in 1..Len(requests) :
        /\ IsCallRequest(requests[r].body)
        /\ Len(Trim(requests[r].body.f.callerName.v)) = 2
        /\ Len(Trim(requests[r].body.f.recipientName.v)) = 2
        /\ Len(Trim(requests[r].body.f.objective.v)) = 5
        /\ Trim(requests[r].body.f.recipientNumber.v)
              = <<"5", "5", "5", "1", "2", "3", "4">>
        /\ Responded(r)
        /\ requests[r].fault = "none"

-----------------------------------------------------------------------------
(* The script handed to the provider (SpecProbe). *)

\* an optional field of the parsed data that is present and not empty
Present(x) == IsStr(x) /\ x.v # <<>>

\* the six segments in their order with one space between neighbours, the
\* notes segment with its space only where there are notes
SegmentsInOrder(data) ==
    <<"Hello ">> \o data.recipientName.v
        \o <<", this is an automated call for you.">>
    \o <<" ">>
    \o data.callerName.v \o <<" asked me to share the following update.">>
    \o <<" ">>
    \o data.objective.v
    \o (IF Present(data.notes)
        THEN <<" ">> \o <<"Additional context from ">> \o data.callerName.v
             \o <<": ">> \o data.notes.v
        ELSE <<>>)
    \o <<" ">>
    \o (IF Present(data.callerNumber)
        THEN <<"If you have questions, please call back at ">>
             \o data.callerNumber.v \o <<".">>
        ELSE <<"If you have any questions, please reach out to them at your convenience.">>)
    \o <<" ">>
    \o <<"Thank you and goodbye!">>

\* C17: for every request that passed validation, the script embedded in the
\* TwiML is greeting, introduction, the objective verbatim, the notes
\* segment, the callback segment and the closing, in this order and joined
\* by single spaces; the notes segment is there if and only if the trimmed
\* notes are present and not empty, and the callback segment names the
\* trimmed callerNumber if and only if that is present and not empty, the
\* generic reach-out segment standing in its place otherwise.
C17_ScriptSegmentsInOrder ==
    \A r \in 1..Len(requests) :
        requests[r].args # NoArgs =>
           /\ Parsed(r).success
           /\ requests[r].args.twiml = Twiml(SegmentsInOrder(Parsed(r).data))

\* the script was built for a request with notes and a blank callerNumber,
\* and for it the provider was invoked
C17_Witness ==
    \E r \in 1..Len(requests) :
        /\ requests[r].args # NoArgs
        /\ ProviderCalls(r) = 1
        /\ Present(Parsed(r).data.notes)
        /\ IsStr(Parsed(r).data.callerNumber)
        /\ ~Present(Parsed(r).data.callerNumber)

-----------------------------------------------------------------------------
(* Escaping the script for the TwiML (SpecProbe). *)

\* the five entities and the characters they stand for
Entities ==
    { [text |-> <<"&", "a", "m", "p", ";">>, char |-> "&"],
      [text |-> <<"&", "q", "u", "o", "t", ";">>, char |-> "\""],
      [text |-> <<"&", "a", "p", "o", "s", ";">>, char |-> "'"],
      [text |-> <<"&", "l", "t", ";">>, char |-> "<"],
      [text |-> <<"&", "g", "t", ";">>, char |-> ">"] }

StartsWith(s, prefix) ==
    Len(s) >= Len(prefix) /\ SubSeq(s, 1, Len(prefix)) = prefix

\* reading escaped text as an XML parser does: from left to right, each of
\* the five entities gives its character, everything else stands for itself
RECURSIVE XmlUnescape(_)
XmlUnescape(s) ==
    IF s = <<>> THEN <<>>
    ELSE IF \E e \in Entities : StartsWith(s, e.text)
    THEN LET e == CHOOSE e \in Entities : StartsWith(s, e.text)
         IN  <<e.char>> \o XmlUnescape(SubSeq(s, Len(e.text) + 1, Len(s)))
    ELSE <<s[1]>> \o XmlUnescape(Tail(s))

\* what stands between <Say ...> and </Say> in the TwiML of request r
SayContent(r) ==
    SubSeq(requests[r].args.twiml, 2, Len(requests[r].args.twiml) - 1)

\* C18: the script as escaped into the TwiML holds none of the characters
\* < > " ' and unescaping its five entities gives back the script exactly,
\* also where the script held text such as &lt; or &amp; before escaping.
C18_EscapeRoundTrips ==
    \A r \in 1..Len(requests) :
        requests[r].args # NoArgs =>
           /\ XmlUnescape(SayContent(r)) = buildCallScript(Parsed(r).data)
           /\ \A i \in 1..Len(SayContent(r)) :
                 SayContent(r)[i] \notin {"<", ">", "\"", "'"}
           /\ requests[r].args.twiml =
                 <<"<Response><Say voice=\"Polly.Joey\" language=\"en-US\">">>
                 \o SayContent(r) \o <<"</Say></Response>">>

\* a script whose notes were &amp;lt; before escaping was escaped and handed
\* to the provider
C18_Witness ==
    \E r \in 1..Len(requests) :
        /\ ProviderCalls(r) = 1
        /\ Parsed(r).data.notes.v = <<"&", "a", "m", "p", ";", "l", "t", ";">>
        /\ Len(SayContent(r)) > Len(buildCallScript(Parsed(r).data))

-----------------------------------------------------------------------------
(* The page and the route end to end (Spec). *)

\* the requests sent for the entry with this id
RequestsOf(id) == {r \in 1..Len(requests) : requests[r].origin = id}

\* the provider accepted an invocation made for request r
Accepted(r) ==
    \E k \in 1..Len(provider) :
        /\ provider[k].req = r
        /\ provider[k].outcome # Unsettled
        /\ provider[k].outcome.accepted

\* C19: an entry shows success only if the route, handling the one request
\* sent for that entry, invoked the provider exactly once and the provider
\* accepted; an entry whose request was turned away by validation, failed
\* on the configuration or was rejected by the provider, or whose round trip
\* ended in a transport failure, does not show success.
C19_SuccessOnlyIfProviderAccepted ==
    \A i \in 1..Len(logs) :
        /\ Cardinality(RequestsOf(logs[i].id)) = 1
        /\ \A r \in RequestsOf(logs[i].id) :
              /\ logs[i].status = "success" =>
                    /\ ProviderCalls(r) = 1
                    /\ Accepted(r)
                    /\ Responded(r)
                    /\ requests[r].fault = "none"
              /\ requests[r].fault \in {"validation", "config", "provider",
                                        "body", "import"} =>
                    logs[i].status # "success"
        /\ logs[i].responseMessage = TransportMsg => logs[i].status = "error"

\* one entry shows success after the provider accepted its call, the other
\* shows the error of a call the provider rejected
C19_Witness ==
    /\ Len(logs) = 2
    /\ logs[1].status = "success"
    /\ logs[2].status = "error"
    /\ \E r \in RequestsOf(logs[2].id) : requests[r].fault = "provider"
    /\ \E r \in RequestsOf(logs[1].id) : Accepted(r)

\* C20: isSubmitting is true in every state in which some entry is queued,
\* that is, while the request of some submission is in flight; when two
\* submissions overlap, the resolution of one leaves the flag set as long as
\* the other has not resolved.
C20_SubmittingWhileInFlight ==
    (\E i \in 1..Len(logs) : logs[i].status = "queued") => isSubmitting

====
